---- MODULE Spec2Model ----
(***************************************************************************)
(* Model of the ground-zero EJS dependency / incremental rebuild engine:   *)
(* scripts/compile-ejs.js (graph builder, impact analysis, compile) and    *)
(* the ejsLiveReload plugin of vite.config.js (debounced flush).           *)
(*                                                                         *)
(* A path is a record [dir, stem, ext]: dir is the sequence of directory   *)
(* segments (absolute when it starts with "/"), stem the file name without *)
(* its extension and ext the extension ("" or ".ejs").  A JS Set or Map    *)
(* key list is a duplicate-free sequence in insertion order.               *)
(***************************************************************************)
EXTENDS Integers, Sequences, FiniteSets, TLC

\* ---------------------------------------------------------------- bounds
\* Largest number of paths handed to one stand-alone impact analysis.
MaxChanged == 2
\* Cap on loop iterations of one stand-alone impact analysis.
MaxIter == 12
\* Largest number of file-system operations of one behaviour of the dev server, or
\* racing with one graph build.
MaxFsOps == 2
\* Largest number of pieces a template text handed to the comment scanner is made of.
MaxPieces == 5
\* Largest number of generateSvgSprite calls of one behaviour of the icons watcher.
MaxCalls == 2
\* Largest number of changes to the icons directory in one behaviour.
MaxIconOps == 2
\* Longest time, in ms, that passes in one step of the clock.
TickMs == 20
\* Longest time, in ms, that passes in one step of the clock of the icons watcher.
IconTickMs == 10

\* ---------------------------------------------------------------- helpers
Range(s) == {s[i] : i \in 1..Len(s)}

IsPrefix(s, t) == Len(s) <= Len(t) /\ SubSeq(t, 1, Len(s)) = s

\* Set.prototype.add on an insertion-ordered set
SetAdd(s, x) == IF x \in Range(s) THEN s ELSE Append(s, x)

RECURSIVE SetFromSeq(_)
\* new Set(array)
SetFromSeq(s) ==
    IF s = <<>> THEN <<>>
    ELSE SetAdd(SetFromSeq(SubSeq(s, 1, Len(s) - 1)), s[Len(s)])

Path(d, s, e) == [dir |-> d, stem |-> s, ext |-> e]

\* ---------------------------------------------------------------- paths
CWD == <<"/">>
PAGES_DIR == CWD \o <<"src", "pages">>
PARTIALS_DIR == CWD \o <<"src", "partials">>
OUT_DIR == CWD \o <<"dev-html">>

pageA == Path(PAGES_DIR, "a", ".ejs")
pageB == Path(PAGES_DIR \o <<"blog">>, "b", ".ejs")
notes == Path(PAGES_DIR, "notes", "")
nav == Path(PARTIALS_DIR, "nav", ".ejs")
logo == Path(PARTIALS_DIR, "logo", ".ejs")

\* Every file the modelled project tree can hold, in directory-listing order.
ReaddirOrder == <<pageA, pageB, notes, logo, nav>>
Files == Range(ReaddirOrder)
Templates == {p \in Files : p.ext = ".ejs"}

\* Literal include() arguments, relative to the including file.
refUpNav == Path(<<"..", "partials">>, "nav", "")
refUpUpNav == Path(<<"..", "..", "partials">>, "nav", "")
refLogo == Path(<<>>, "logo", ".ejs")
refNav == Path(<<>>, "nav", "")
refNotes == Path(<<>>, "notes", "")
refBlog == Path(<<>>, "blog", "")

\* The include() literals a template may carry, in source order.
RefsFor(p) ==
    IF p = pageA THEN <<refUpNav, refNotes, refBlog>>
    ELSE IF p = pageB THEN <<refUpUpNav, refUpUpNav>>
    ELSE IF p = nav THEN <<refLogo, refNav>>
    ELSE IF p = logo THEN <<refNav, refLogo>>
    ELSE <<>>

RECURSIVE SubSeqs(_)
SubSeqs(s) ==
    IF s = <<>> THEN {<<>>}
    ELSE LET rest == SubSeqs(Tail(s))
         IN rest \cup {<<Head(s)>> \o r : r \in rest}

\* The texts a file may hold: the include() literals left after comment stripping.
Contents(p) == SubSeqs(RefsFor(p))

\* ---------------------------------------------------------------- state
VARIABLES
    exists,     \* files present on disk
    content,    \* file -> its include() literals, in source order
    out,        \* output file -> <<html>> when written, <<>> when absent
    events,     \* watcher notifications not yet handed to the handler
    graph,      \* ejsLiveReload: the current dependency graph
    pending,    \* ejsLiveReload: the pending Set
    timer,      \* ejsLiveReload: the timer handle, 0 for null
    timers,     \* the event loop: handles of the armed timeouts
    flushes,    \* the activations of flush() that have not returned
    fsOps,      \* file-system operations so far
    acc,        \* history: what the notifications since the last flush start carried
    ia,         \* one run of getImpactedPages: its locals and position
    sc,         \* one template text and what stripEjsComments and the include scan made of it
    sp,         \* the icons directory, the sprite files and the running generateSvgSprite calls
    bp,         \* the production build: its stages and its exit code
    clock,      \* ejsLiveReload: the delay left on each armed timeout, the time since
                \* the first notification of the open burst
    srv,        \* the dev-server process: whether it runs, what became of rejected flushes
    gb,         \* one buildDependencyGraph call taken system call by system call
    ri          \* one resolveInclude call: its arguments and what it returned

fsVars == <<exists, content>>
auxVars == <<sc, sp, bp, gb, ri>>
devVars == <<out, events, pending, timer, timers, flushes, fsOps, acc, auxVars, clock, srv>>

NoAcc == [burst |-> <<>>, owed |-> {}, mid |-> FALSE, times |-> <<>>]

\* The values of sc, sp, bp, srv, gb and ri while the part of the program they belong
\* to is not run.
IdleScan == [pc |-> "idle"]
IdleSprite == [pc |-> "idle"]
IdleBuild == [pc |-> "idle"]
IdleServer == [pc |-> "idle"]
IdleGraphBuild == [pc |-> "idle"]
IdleResolve == [pc |-> "idle"]

\* No timeout is armed.
NoClock == [left |-> [h \in {} |-> 0], since |-> 0]

\* ---------------------------------------------------------------- node:path, node:fs
RECURSIVE ResolveSegs(_, _)
ResolveSegs(dir, segs) ==
    IF segs = <<>> THEN dir
    ELSE IF Head(segs) = ".."
         THEN ResolveSegs(IF Len(dir) <= 1 THEN dir ELSE SubSeq(dir, 1, Len(dir) - 1),
                          Tail(segs))
         ELSE ResolveSegs(Append(dir, Head(segs)), Tail(segs))

pathIsAbsolute(p) == p.dir # <<>> /\ Head(p.dir) = "/"

pathResolve(from, p) ==
    IF pathIsAbsolute(p) THEN p ELSE [p EXCEPT !.dir = ResolveSegs(from, p.dir)]

dirname(p) == p.dir

extname(p) == p.ext

\* A directory is on disk when a file lies below it.
IsDirectory(ex, d) == \E q \in ex : IsPrefix(d, q.dir)

existsSync(ex, p) == p \in ex \/ IsDirectory(ex, Append(p.dir, p.stem \o p.ext))

\* ---------------------------------------------------------------- compile-ejs.js: stripEjsComments
\* A template text is a sequence of characters.  The text of one include call,
\* which holds none of the characters < % # > and no newline, is one element.
NL == "\n"
inclLogo == "include('logo')"

\* The pieces the texts handed to the scanner are put together from.
Pieces == << <<"<", "%", "#">>, <<"<", "%">>, <<"%", ">">>, <<"<", "%", "%">>,
             <<"<">>, <<"%", "#">>, <<NL>>, <<inclLogo>> >>

\* str.startsWith(pat, i), positions counted from 1
startsWith(str, pat, i) ==
    i + Len(pat) - 1 <= Len(str) /\ SubSeq(str, i, i + Len(pat) - 1) = pat

opensNestedNever(str, i) == FALSE

\* else if (str.startsWith('<%', i)) inside a comment
opensNested(str, i) == startsWith(str, <<"<", "%">>, i)

keptInCommentNothing(ch) == FALSE

keptInCommentAlways(ch) == TRUE

\* if (str[i] === '\n') inside a comment
keptInComment(ch) == ch = NL

afterEscapeCopied(o) == o \o <<"<", "%", "%">>

\* if (str.startsWith('<%%', i)) { i += 3; } inside a comment: out is left as it is
afterEscape(o) == o

RECURSIVE StripScan(_, _, _, _)
\* The two nested loops of stripEjsComments as one: depth = 0 outside a comment.
StripScan(str, i, depth, o) ==
    IF i > Len(str) THEN o
    ELSE IF depth = 0
         THEN IF startsWith(str, <<"<", "%", "#">>, i)
              THEN StripScan(str, i + 3, 1, o)
              ELSE StripScan(str, i + 1, 0, Append(o, str[i]))
         ELSE IF startsWith(str, <<"<", "%", "%">>, i)
              THEN StripScan(str, i + 3, depth, afterEscape(o))
              ELSE IF opensNested(str, i)
                   THEN StripScan(str, i + 2, depth + 1, o)
                   ELSE IF startsWith(str, <<"%", ">">>, i)
                        THEN StripScan(str, i + 2, depth - 1, o)
                        ELSE StripScan(str, i + 1, depth,
                                       IF keptInComment(str[i]) THEN Append(o, NL) ELSE o)

stripEjsComments(str) == StripScan(str, 1, 0, <<>>)

\* readEjsFile of a file holding text
readEjsFile(text) == stripEjsComments(text)

\* The matches of rx = /include\(\s*['"]([^'"]+)['"]/g in src: their literal arguments.
includeLiterals(src) ==
    LET calls == SelectSeq(src, LAMBDA ch : ch = inclLogo)
    IN [k \in 1..Len(calls) |-> Path(<<>>, "logo", "")]

\* ---------------------------------------------------------------- compile-ejs.js
walkDirAnyFile(ex, dir) ==
    IF ~IsDirectory(ex, dir) THEN <<>>
    ELSE SelectSeq(ReaddirOrder, LAMBDA p : p \in ex /\ IsPrefix(dir, p.dir))

walkDir(ex, dir) ==
    IF ~IsDirectory(ex, dir) THEN <<>>
    ELSE SelectSeq(ReaddirOrder,
                   LAMBDA p : p \in ex /\ IsPrefix(dir, p.dir) /\ p.ext = ".ejs")

resolveIncludeNoFallback(ex, fromFile, includePath) ==
    LET base == pathResolve(dirname(fromFile), includePath)
        withExt == Path(base.dir, base.stem \o base.ext, ".ejs")
    IN IF extname(base) = ".ejs" THEN base ELSE withExt

resolveInclude(ex, fromFile, includePath) ==
    LET base == pathResolve(dirname(fromFile), includePath)
        withExt == Path(base.dir, base.stem \o base.ext, ".ejs")
    IN IF extname(base) = ".ejs" THEN base
       ELSE IF existsSync(ex, withExt) THEN withExt
       ELSE IF existsSync(ex, base) THEN base
       ELSE withExt

RECURSIVE ScanMatchesUnchecked(_, _, _, _)
ScanMatchesUnchecked(ex, filePath, src, targets) ==
    IF src = <<>> THEN targets
    ELSE ScanMatchesUnchecked(ex, filePath, Tail(src),
                              SetAdd(targets, resolveInclude(ex, filePath, Head(src))))

RECURSIVE ScanMatches(_, _, _, _)
ScanMatches(ex, filePath, src, targets) ==
    IF src = <<>> THEN targets
    ELSE LET resolved == resolveInclude(ex, filePath, Head(src))
         IN ScanMatches(ex, filePath, Tail(src),
                        IF existsSync(ex, resolved) THEN SetAdd(targets, resolved)
                        ELSE targets)

scanIncludes(ex, co, filePath) == ScanMatches(ex, filePath, co[filePath], <<>>)

EmptyMap == [x \in {} |-> <<>>]

MapSet(m, k, v) == [x \in DOMAIN m \cup {k} |-> IF x = k THEN v ELSE m[x]]

RECURSIVE AddDependentsBroken(_, _, _)
AddDependentsBroken(dependents, file, incs) ==
    IF incs = <<>> THEN dependents
    ELSE LET t == Head(incs)
         IN AddDependentsBroken(IF t \in DOMAIN dependents THEN dependents
                                ELSE MapSet(dependents, t, <<file>>),
                                file, Tail(incs))

RECURSIVE AddDependents(_, _, _)
AddDependents(dependents, file, incs) ==
    IF incs = <<>> THEN dependents
    ELSE LET t == Head(incs)
             d1 == IF t \in DOMAIN dependents THEN dependents
                   ELSE MapSet(dependents, t, <<>>)
         IN AddDependents([d1 EXCEPT ![t] = SetAdd(@, file)], file, Tail(incs))

RECURSIVE ScanUniverse(_, _, _, _)
ScanUniverse(ex, co, universe, g) ==
    IF universe = <<>> THEN g
    ELSE LET file == Head(universe)
             incs == scanIncludes(ex, co, file)
         IN ScanUniverse(ex, co, Tail(universe),
                         [g EXCEPT !.includes = MapSet(@, file, incs),
                                   !.dependents = AddDependents(@, file, incs)])

buildDependencyGraph(ex, co) ==
    LET pages == SetFromSeq(walkDir(ex, PAGES_DIR))
        partials == SetFromSeq(walkDir(ex, PARTIALS_DIR))
        universe == SetFromSeq(pages \o partials)
    IN ScanUniverse(ex, co, universe,
                    [pages |-> pages, partials |-> partials,
                     includes |-> EmptyMap, dependents |-> EmptyMap])

RECURSIVE PushUpsPagesOnly(_, _, _)
PushUpsPagesOnly(st, g, ups) ==
    IF ups = <<>> THEN st
    ELSE LET u == Head(ups)
         IN PushUpsPagesOnly([st EXCEPT
                       !.result = IF u \in Range(g.pages) THEN SetAdd(@, u) ELSE @],
                    g, Tail(ups))

RECURSIVE PushUps(_, _, _)
\* for (const u of ups) of getImpactedPages
PushUps(st, g, ups) ==
    IF ups = <<>> THEN st
    ELSE LET u == Head(ups)
         IN PushUps([st EXCEPT
                       !.result = IF u \in Range(g.pages) THEN SetAdd(@, u) ELSE @,
                       !.stack = IF u \notin Range(st.seen) THEN Append(@, u) ELSE @],
                    g, Tail(ups))

SkipsNever(st, cur) == FALSE

\* Whether the loop skips the popped path.
Skips(st, cur) == cur \in Range(st.seen)

\* One iteration of the while loop of getImpactedPages.
ImpactIter(st, g) ==
    LET cur == st.stack[Len(st.stack)]
        popped == [st EXCEPT !.stack = SubSeq(@, 1, Len(@) - 1)]
    IN IF Skips(st, cur) THEN popped
       ELSE LET s1 == [popped EXCEPT
                         !.seen = SetAdd(@, cur),
                         !.result = IF cur \in Range(g.pages) THEN SetAdd(@, cur) ELSE @]
            IN IF cur \in DOMAIN g.dependents
               THEN PushUps(s1, g, g.dependents[cur])
               ELSE s1

ImpactStart(changedPaths) ==
    [stack |-> [i \in 1..Len(changedPaths) |-> pathResolve(CWD, changedPaths[i])],
     seen |-> <<>>, result |-> <<>>]

RECURSIVE ImpactRun(_, _)
ImpactRun(st, g) == IF st.stack = <<>> THEN st.result ELSE ImpactRun(ImpactIter(st, g), g)

getImpactedPages(changedPaths, g) == ImpactRun(ImpactStart(changedPaths), g)

EmptyGraph == [pages |-> <<>>, partials |-> <<>>, includes |-> EmptyMap, dependents |-> EmptyMap]

IdleAnalysis == [pc |-> "init", changed |-> <<>>, stack |-> <<>>, seen |-> <<>>,
                 result |-> <<>>, expanded |-> <<>>, iters |-> 0]

\* ---------------------------------------------------------------- file-system layouts
RECURSIVE LayoutsOver(_, _)
LayoutsOver(files, ex) ==
    IF files = <<>> THEN {EmptyMap}
    ELSE LET p == Head(files)
         IN {MapSet(co, p, c) : co \in LayoutsOver(Tail(files), ex),
                                c \in IF p \in ex THEN Contents(p) ELSE {<<>>}}

\* Every content assignment of the files present.
Layouts(ex) == LayoutsOver(ReaddirOrder, ex)

\* ---------------------------------------------------------------- stand-alone graph build and impact analysis
relA == Path(<<"src", "pages">>, "a", ".ejs")
ChangedUniverse == ReaddirOrder \o <<relA>>
ChangedLists == {c \in SubSeqs(ChangedUniverse) : Len(c) <= MaxChanged}

IABuild ==
    /\ ia.pc = "init"
    /\ graph' = buildDependencyGraph(exists, content)
    /\ ia' = [ia EXCEPT !.pc = "built"]
    /\ UNCHANGED <<fsVars, devVars>>

IAStart(changedPaths) ==
    /\ ia.pc = "built"
    /\ LET st == ImpactStart(changedPaths)
       IN ia' = [ia EXCEPT !.pc = "loop", !.changed = changedPaths, !.stack = st.stack,
                           !.seen = st.seen, !.result = st.result]
    /\ UNCHANGED <<fsVars, devVars, graph>>

IAIter ==
    /\ ia.pc = "loop"
    /\ ia.stack # <<>>
    /\ ia.iters < MaxIter
    /\ LET cur == ia.stack[Len(ia.stack)]
           st == ImpactIter([stack |-> ia.stack, seen |-> ia.seen, result |-> ia.result], graph)
       IN ia' = [ia EXCEPT !.stack = st.stack, !.seen = st.seen, !.result = st.result,
                           !.iters = @ + 1,
                           !.expanded = IF Skips(ia, cur) THEN @ ELSE Append(@, cur)]
    /\ UNCHANGED <<fsVars, devVars, graph>>

IAReturn ==
    /\ ia.pc = "loop"
    /\ ia.stack = <<>>
    /\ ia' = [ia EXCEPT !.pc = "done"]
    /\ UNCHANGED <<fsVars, devVars, graph>>

vars == <<exists, content, out, events, graph, pending, timer, timers, flushes, fsOps, acc, ia, auxVars,
          clock, srv>>

InitImpact ==
    /\ exists \in SUBSET Files
    /\ content \in Layouts(exists)
    /\ graph = EmptyGraph
    /\ ia = IdleAnalysis
    /\ out = EmptyMap
    /\ events = <<>>
    /\ pending = <<>>
    /\ timer = 0
    /\ timers = {}
    /\ flushes = <<>>
    /\ fsOps = 0
    /\ acc = NoAcc
    /\ clock = NoClock
    /\ sc = IdleScan
    /\ sp = IdleSprite
    /\ bp = IdleBuild
    /\ gb = IdleGraphBuild
    /\ ri = IdleResolve
    /\ srv = IdleServer

NextImpact ==
    \/ IABuild
    \/ \E c \in ChangedLists : IAStart(c)
    \/ IAIter
    \/ IAReturn

SpecImpact == InitImpact /\ [][NextImpact]_vars /\ WF_vars(IAIter) /\ WF_vars(IAReturn)

\* ---------------------------------------------------------------- claims: graph and impact analysis
Includes(g, a, b) == a \in DOMAIN g.includes /\ b \in Range(g.includes[a])
Dependents(g, b, a) == b \in DOMAIN g.dependents /\ a \in Range(g.dependents[b])

\* Every path an edge of g can touch.
Nodes(g) ==
    DOMAIN g.includes \cup DOMAIN g.dependents
    \cup UNION {Range(g.includes[a]) : a \in DOMAIN g.includes}
    \cup UNION {Range(g.dependents[b]) : b \in DOMAIN g.dependents}
    \cup Files

\* C1: in every graph buildDependencyGraph returns, B is in includes[A] exactly
\* when A is in dependents[B]: the two edge maps are transposes.
C1_GraphSymmetry ==
    ia.pc # "init" =>
        \A a \in Nodes(graph) : \A b \in Nodes(graph) :
            Includes(graph, a, b) <=> Dependents(graph, b, a)

C1_Witness ==
    /\ ia.pc = "built"
    /\ Includes(graph, pageA, nav) /\ Includes(graph, pageB, nav) /\ Includes(graph, nav, logo)
    /\ Range(graph.dependents[nav]) = {pageA, pageB}

RECURSIVE UpClosure(_, _)
\* The paths reachable from S by zero or more reverse edges of g.
UpClosure(g, S) ==
    LET N == S \cup {u \in Nodes(g) : \E t \in S : Dependents(g, t, u)}
    IN IF N = S THEN S ELSE UpClosure(g, N)

AbsChanged(c) == {pathResolve(CWD, c[i]) : i \in 1..Len(c)}

\* C2: getImpactedPages returns exactly the documents reachable from a changed
\* path by zero or more reverse edges.
C2_ImpactExact ==
    ia.pc = "done" =>
        Range(ia.result) = UpClosure(graph, AbsChanged(ia.changed)) \cap Range(graph.pages)

\* logo changed, nav includes logo, a includes nav, b does not: two-level reach.
C2_Witness ==
    /\ ia.pc = "done"
    /\ ia.changed = <<logo>>
    /\ Includes(graph, nav, logo) /\ Includes(graph, pageA, nav)
    /\ pageB \in Range(graph.pages) /\ ~Includes(graph, pageB, nav)
    /\ Range(ia.result) = {pageA}

NoPathExpandedTwice ==
    \A i \in 1..Len(ia.expanded) : \A j \in 1..Len(ia.expanded) :
        ia.expanded[i] = ia.expanded[j] => i = j

\* C3: getImpactedPages terminates on every graph, cyclic or not, and expands
\* each path at most once.
C3_Terminates ==
    /\ [](NoPathExpandedTwice /\ ia.iters < MaxIter)
    /\ (ia.pc = "loop") ~> (ia.pc = "done")

\* nav and logo include each other, nav includes itself; analysis of logo finished.
C3_Witness ==
    /\ ia.pc = "done"
    /\ ia.changed = <<logo>>
    /\ Includes(graph, nav, logo) /\ Includes(graph, logo, nav) /\ Includes(graph, nav, nav)
    /\ {nav, logo} \subseteq Range(ia.seen)

\* The scanned universe of g: its documents and its fragments.
Universe(g) == Range(g.pages) \cup Range(g.partials)

\* Whether a file or a directory lies at path p.
Present(p) == p \in exists \/ IsDirectory(exists, Append(p.dir, p.stem \o p.ext))

\* C30 as amended: in every built graph the universe holds the .ejs files on disk
\* below the two roots and nothing else, the including end of every edge (a key
\* of includes, a member of a dependents set) is a member of the universe, and
\* the included end (a member of an includes set, a key of dependents) is a path
\* on disk, which need not be a template: it can be a directory or another file.
C30_EdgeSourcesInUniverse ==
    ia.pc # "init" =>
        /\ Universe(graph) =
              {p \in exists : p.ext = ".ejs"
                              /\ (IsPrefix(PAGES_DIR, p.dir) \/ IsPrefix(PARTIALS_DIR, p.dir))}
        /\ DOMAIN graph.includes = Universe(graph)
        /\ \A a \in DOMAIN graph.includes : \A b \in Range(graph.includes[a]) : Present(b)
        /\ \A b \in DOMAIN graph.dependents :
              Present(b) /\ Range(graph.dependents[b]) \subseteq Universe(graph)

\* C30 as stated: both ends of every edge are members of pages or partials.
C30_EdgesWithinUniverse ==
    ia.pc # "init" =>
        /\ DOMAIN graph.includes \subseteq Universe(graph)
        /\ \A a \in DOMAIN graph.includes : Range(graph.includes[a]) \subseteq Universe(graph)
        /\ \A b \in DOMAIN graph.dependents :
              b \in Universe(graph) /\ Range(graph.dependents[b]) \subseteq Universe(graph)

\* a.ejs includes 'notes' and 'blog': the file without extension and the directory
\* are on disk, so both are edge targets, and neither is a document or a fragment.
C30_Witness ==
    /\ ia.pc = "built"
    /\ Includes(graph, pageA, notes)
    /\ Includes(graph, pageA, Path(PAGES_DIR, "blog", ""))
    /\ Dependents(graph, notes, pageA)
    /\ Universe(graph) = {pageA, pageB}

\* ---------------------------------------------------------------- buildDependencyGraph, one system call at a time
\* The directory a path names.
AsDir(p) == Append(p.dir, p.stem \o p.ext)

\* The entry of directory dir through which the file q below dir is found.
EntryOf(dir, q) == IF q.dir = dir THEN q ELSE Path(dir, q.dir[Len(dir) + 1], "")

\* readdirSync(dir): the files and the subdirectories that lie directly in dir
readdirSync(ex, dir) ==
    LET below == SelectSeq(ReaddirOrder, LAMBDA q : q \in ex /\ IsPrefix(dir, q.dir))
    IN SetFromSeq([k \in 1..Len(below) |-> EntryOf(dir, below[k])])

\* An activation of walkDir: before existsSync, before readdirSync, or in the loop
\* with the entries not yet visited.
Frame(dir) == [dir |-> dir, phase |-> "exists", entries |-> <<>>]

RECURSIVE Unwind(_)
\* The activations whose loop is over return to their callers.
Unwind(stack) ==
    IF stack # <<>> /\ stack[Len(stack)].phase = "entries" /\ stack[Len(stack)].entries = <<>>
    THEN Unwind(SubSeq(stack, 1, Len(stack) - 1))
    ELSE stack

\* The walk of a root has returned: new Set(walkDir(PAGES_DIR)), then the walk of
\* PARTIALS_DIR, then the universe to scan.
WalkReturned(b) ==
    IF b.stack # <<>> THEN b
    ELSE IF b.root = "pages"
         THEN [b EXCEPT !.root = "partials", !.pages = SetFromSeq(b.found), !.found = <<>>,
                        !.stack = <<Frame(PARTIALS_DIR)>>]
         ELSE LET partials == SetFromSeq(b.found)
                  universe == SetFromSeq(b.pages \o partials)
              IN [b EXCEPT !.pc = IF universe = <<>> THEN "done" ELSE "scan",
                           !.partials = partials, !.found = <<>>, !.universe = universe]

WalkStep(b, stack) == WalkReturned([b EXCEPT !.stack = Unwind(stack)])

Threw(b, call) == [b EXCEPT !.pc = "threw", !.thrownBy = call]

Top(stack) == stack[Len(stack)]

SetTop(stack, f) == [stack EXCEPT ![Len(stack)] = f]

nonGraphBuildVars == <<fsVars, out, events, graph, pending, timer, timers, flushes, fsOps, acc, ia,
                       sc, sp, bp, clock, srv, ri>>

\* if (!existsSync(dir)) return out;
GBExists ==
    /\ gb.pc = "walk"
    /\ Top(gb.stack).phase = "exists"
    /\ gb' = IF IsDirectory(exists, Top(gb.stack).dir)
             THEN [gb EXCEPT !.stack = SetTop(@, [Top(@) EXCEPT !.phase = "readdir"])]
             ELSE WalkStep(gb, SubSeq(gb.stack, 1, Len(gb.stack) - 1))
    /\ UNCHANGED nonGraphBuildVars

\* readdirSync(dir): ENOENT when the directory is gone.
GBReaddir ==
    /\ gb.pc = "walk"
    /\ Top(gb.stack).phase = "readdir"
    /\ gb' = IF ~IsDirectory(exists, Top(gb.stack).dir) THEN Threw(gb, "readdirSync")
             ELSE WalkStep(gb, SetTop(gb.stack,
                                      [Top(gb.stack) EXCEPT
                                          !.phase = "entries",
                                          !.entries = readdirSync(exists, Top(gb.stack).dir)]))
    /\ UNCHANGED nonGraphBuildVars

\* const s = statSync(p): ENOENT when the entry is gone; a directory is walked, a
\* file whose name ends in .ejs is pushed.
GBStat ==
    /\ gb.pc = "walk"
    /\ Top(gb.stack).phase = "entries"
    /\ LET top == Top(gb.stack)
           p == Head(top.entries)
           rest == SetTop(gb.stack, [top EXCEPT !.entries = Tail(@)])
       IN gb' = IF ~existsSync(exists, p) THEN Threw(gb, "statSync")
                ELSE IF IsDirectory(exists, AsDir(p))
                     THEN [gb EXCEPT !.stack = Append(rest, Frame(AsDir(p)))]
                     ELSE WalkStep([gb EXCEPT !.found = IF p.ext = ".ejs" THEN Append(@, p) ELSE @],
                                   rest)
    /\ UNCHANGED nonGraphBuildVars

\* One turn of for (const file of universe): scanIncludes reads the file (ENOENT
\* when it is gone) and the edges are added; after the last turn the graph is returned.
GBScan ==
    /\ gb.pc = "scan"
    /\ LET file == Head(gb.universe)
           incs == scanIncludes(exists, content, file)
       IN gb' = IF file \notin exists THEN Threw(gb, "readFileSync")
                ELSE [gb EXCEPT !.pc = IF Tail(gb.universe) = <<>> THEN "done" ELSE "scan",
                                !.universe = Tail(@),
                                !.scannedAt = MapSet(@, file, exists),
                                !.read = MapSet(@, file, content[file]),
                                !.includes = MapSet(@, file, incs),
                                !.dependents = AddDependents(@, file, incs)]
    /\ UNCHANGED nonGraphBuildVars

\* A file is removed while the graph is being built; a directory goes with its last file.
RaceRemove(p) ==
    /\ gb.pc \in {"walk", "scan"}
    /\ p \in exists
    /\ fsOps < MaxFsOps
    /\ fsOps' = fsOps + 1
    /\ exists' = exists \ {p}
    /\ content' = [content EXCEPT ![p] = <<>>]
    /\ UNCHANGED <<out, events, graph, pending, timer, timers, flushes, acc, ia, auxVars, clock, srv>>

\* The graph a finished call returns.
Returned(b) ==
    [pages |-> b.pages, partials |-> b.partials, includes |-> b.includes,
     dependents |-> b.dependents]

\* buildDependencyGraph is called on a project tree whose files hold all their includes.
InitRace ==
    /\ exists \in SUBSET Files
    /\ content = [p \in Files |-> IF p \in exists THEN RefsFor(p) ELSE <<>>]
    /\ gb = [pc |-> "walk", root |-> "pages", stack |-> <<Frame(PAGES_DIR)>>, found |-> <<>>,
             pages |-> <<>>, partials |-> <<>>, universe |-> <<>>,
             includes |-> EmptyMap, dependents |-> EmptyMap, thrownBy |-> "",
             scannedAt |-> EmptyMap, read |-> EmptyMap, tree |-> exists]
    /\ graph = EmptyGraph
    /\ ia = IdleAnalysis
    /\ out = EmptyMap
    /\ events = <<>>
    /\ pending = <<>>
    /\ timer = 0
    /\ timers = {}
    /\ flushes = <<>>
    /\ fsOps = 0
    /\ acc = NoAcc
    /\ clock = NoClock
    /\ sc = IdleScan
    /\ sp = IdleSprite
    /\ bp = IdleBuild
    /\ ri = IdleResolve
    /\ srv = IdleServer

NextRace ==
    \/ GBExists
    \/ GBReaddir
    \/ GBStat
    \/ GBScan
    \/ \E p \in Files : RaceRemove(p)

SpecRace == InitRace /\ [][NextRace]_vars

\* ---------------------------------------------------------------- claims: deletions racing with the scan
\* Undisturbed, the calls taken one at a time return what buildDependencyGraph returns.
StepwiseAgrees ==
    gb.pc = "done" /\ fsOps = 0 => Returned(gb) = buildDependencyGraph(exists, content)

\* C22: a file or directory that disappears between the directory listing and the
\* stat or read of a graph rebuild is absorbed: neither the stat of a listed
\* entry nor the read of a listed file raises.
C22_DeletionAbsorbed ==
    gb.pc = "threw" => gb.thrownBy \notin {"statSync", "readFileSync"}

\* Whether a file or a directory lay at path p in the tree ex.
OnDiskIn(ex, p) == p \in ex \/ \E q \in ex : IsPrefix(Append(p.dir, p.stem \o p.ext), q.dir)

\* The path the k-th include() literal of the scanned file f named when f was scanned.
TargetOf(f, k) == resolveInclude(gb.scannedAt[f], f, gb.read[f][k])

\* C26: a reference that resolves to nothing on disk when its file is scanned gives
\* no forward edge, no reverse edge and no error: the forward edges of a scanned
\* file are exactly its references whose target was on disk at that time, and
\* every reverse edge is one of these forward edges.
C26_MissingTargetsDropped ==
    gb.pc \in {"scan", "done", "threw"} =>
        /\ \A f \in DOMAIN gb.includes :
              Range(gb.includes[f]) =
                  {TargetOf(f, k) : k \in {j \in 1..Len(gb.read[f]) :
                                              OnDiskIn(gb.scannedAt[f], TargetOf(f, j))}}
        /\ \A t \in DOMAIN gb.dependents : \A f \in Range(gb.dependents[t]) :
              f \in DOMAIN gb.includes /\ t \in Range(gb.includes[f])

\* a.ejs refers to nav.ejs, which is not on disk, and to notes, which is: the graph
\* holds the one edge, and the scan went on to the end.
C26_Witness ==
    /\ gb.pc = "done"
    /\ pageA \in DOMAIN gb.includes
    /\ gb.read[pageA] = <<refUpNav, refNotes, refBlog>>
    /\ nav \notin gb.scannedAt[pageA]
    /\ gb.includes[pageA] = <<notes>>
    /\ DOMAIN gb.dependents = {notes}

\* ---------------------------------------------------------------- stand-alone include resolver
\* The references handed to resolveInclude: the literals of the templates and an
\* absolute path.
IncludeRefs == {refUpNav, refUpUpNav, refLogo, refNav, refNotes, refBlog, logo}

\* resolveInclude(fromFile, includePath) is called and returns.
RIResolve ==
    /\ ri.pc = "args"
    /\ ri' = [ri EXCEPT !.pc = "returned",
                        !.result = <<resolveInclude(exists, ri.fromFile, ri.includePath)>>]
    /\ UNCHANGED <<fsVars, out, events, graph, pending, timer, timers, flushes, fsOps, acc, ia,
                   sc, sp, bp, clock, srv, gb>>

InitResolve ==
    /\ exists \in SUBSET Files
    /\ content = [p \in Files |-> <<>>]
    /\ \E f \in Templates : \E r \in IncludeRefs :
          ri = [pc |-> "args", fromFile |-> f, includePath |-> r, result |-> <<>>]
    /\ graph = EmptyGraph
    /\ ia = IdleAnalysis
    /\ out = EmptyMap
    /\ events = <<>>
    /\ pending = <<>>
    /\ timer = 0
    /\ timers = {}
    /\ flushes = <<>>
    /\ fsOps = 0
    /\ acc = NoAcc
    /\ clock = NoClock
    /\ sc = IdleScan
    /\ sp = IdleSprite
    /\ bp = IdleBuild
    /\ gb = IdleGraphBuild
    /\ srv = IdleServer

NextResolve == RIResolve

SpecResolve == InitResolve /\ [][NextResolve]_vars

\* ---------------------------------------------------------------- claims: the include resolver
\* The reference of the call at hand, resolved against the directory of the including file.
Resolved == pathResolve(ri.fromFile.dir, ri.includePath)

\* The resolved reference with the template extension appended to its name.
Appended == Path(Resolved.dir, Resolved.stem \o Resolved.ext, ".ejs")

\* Whether a file or a directory lies at path p.
OnDisk(p) == OnDiskIn(exists, p)

\* C25: resolveInclude returns (it never raises) the resolved reference itself when
\* its extension is the template extension; otherwise the extension-appended path
\* when that is on disk; otherwise the bare path when only the bare path is on
\* disk; otherwise the extension-appended path.
C25_ResolveCases ==
    ri.pc = "returned" =>
        /\ Len(ri.result) = 1
        /\ Resolved.ext = ".ejs" => ri.result[1] = Resolved
        /\ Resolved.ext # ".ejs" /\ OnDisk(Appended) => ri.result[1] = Appended
        /\ Resolved.ext # ".ejs" /\ ~OnDisk(Appended) /\ OnDisk(Resolved) => ri.result[1] = Resolved
        /\ Resolved.ext # ".ejs" /\ ~OnDisk(Appended) /\ ~OnDisk(Resolved) => ri.result[1] = Appended

\* a.ejs refers to 'notes': notes.ejs is not on disk, the file notes is, and is returned.
C25_Witness ==
    /\ ri.pc = "returned"
    /\ ri.fromFile = pageA /\ ri.includePath = refNotes
    /\ notes \in exists
    /\ ri.result = <<notes>>

\* ---------------------------------------------------------------- stand-alone comment scanner
RECURSIVE Flatten(_)
Flatten(ps) == IF ps = <<>> THEN <<>> ELSE Head(ps) \o Flatten(Tail(ps))

\* Every text of at most MaxPieces pieces, as the sequence of its pieces.
PieceSeqs ==
    UNION {[1..n -> Range(Pieces)] : n \in 0..MaxPieces}

\* The tree the scanned text lies in: it is the text of nav, next to logo.
ScanTree == {nav, logo}

\* stripEjsComments is applied to the text.
SCStrip ==
    /\ sc.pc = "text"
    /\ sc' = [sc EXCEPT !.pc = "stripped", !.once = stripEjsComments(sc.str)]
    /\ UNCHANGED <<fsVars, out, events, graph, pending, timer, timers, flushes, fsOps, acc, ia,
                   sp, bp, clock, srv, gb, ri>>

\* scanIncludes of nav, whose text is the one at hand.
SCScan ==
    /\ sc.pc = "stripped"
    /\ sc' = [sc EXCEPT
                !.pc = "scanned",
                !.targets = ScanMatches(exists, nav, includeLiterals(readEjsFile(sc.str)), <<>>)]
    /\ UNCHANGED <<fsVars, out, events, graph, pending, timer, timers, flushes, fsOps, acc, ia,
                   sp, bp, clock, srv, gb, ri>>

\* stripEjsComments is applied to its own output.
SCStripAgain ==
    /\ sc.pc = "scanned"
    /\ sc' = [sc EXCEPT !.pc = "restripped", !.twice = stripEjsComments(sc.once)]
    /\ UNCHANGED <<fsVars, out, events, graph, pending, timer, timers, flushes, fsOps, acc, ia,
                   sp, bp, clock, srv, gb, ri>>

InitStrip ==
    /\ \E ps \in PieceSeqs :
          sc = [pc |-> "text", pieces |-> ps, str |-> Flatten(ps),
                once |-> <<>>, twice |-> <<>>, targets |-> <<>>]
    /\ exists = ScanTree
    /\ content = [p \in Files |-> <<>>]
    /\ graph = EmptyGraph
    /\ ia = IdleAnalysis
    /\ out = EmptyMap
    /\ events = <<>>
    /\ pending = <<>>
    /\ timer = 0
    /\ timers = {}
    /\ flushes = <<>>
    /\ fsOps = 0
    /\ acc = NoAcc
    /\ clock = NoClock
    /\ sp = IdleSprite
    /\ bp = IdleBuild
    /\ gb = IdleGraphBuild
    /\ ri = IdleResolve
    /\ srv = IdleServer

NextStrip ==
    \/ SCStrip
    \/ SCScan
    \/ SCStripAgain

SpecStrip == InitStrip /\ [][NextStrip]_vars

\* ---------------------------------------------------------------- claims: the comment scanner
CountNL(s) == Len(SelectSeq(s, LAMBDA ch : ch = NL))

OPEN_COMMENT == <<"<", "%", "#">>
OPEN_TAG == <<"<", "%">>
CLOSE_TAG == <<"%", ">">>

\* C11: the output of stripEjsComments holds exactly as many newlines as its
\* input, nested delimiters and unterminated comments included.
C11_NewlinesKept ==
    sc.pc \in {"stripped", "scanned", "restripped"} => CountNL(sc.once) = CountNL(sc.str)

\* An unterminated comment with a nested pair: a newline inside the pair, one after it.
C11_Witness ==
    /\ sc.pc = "stripped"
    /\ sc.pieces = <<OPEN_COMMENT, OPEN_TAG, <<NL>>, CLOSE_TAG, <<NL>>>>
    /\ sc.once = <<NL, NL>>

\* C12: stripping is idempotent, the output of a strip is left as it is by a second strip.
C12_Idempotent ==
    sc.pc = "restripped" => sc.twice = sc.once

\* The number of nested tags open after the pieces ps.
NestDepth(ps) ==
    Len(SelectSeq(ps, LAMBDA x : x = OPEN_TAG)) - Len(SelectSeq(ps, LAMBDA x : x = CLOSE_TAG))

\* ps is a comment body of text, newlines and balanced nested tag pairs.
BalancedBody(ps) ==
    /\ \A k \in 1..Len(ps) : ps[k] \in {OPEN_TAG, CLOSE_TAG, <<NL>>, <<inclLogo>>}
    /\ \A k \in 1..Len(ps) : NestDepth(SubSeq(ps, 1, k)) >= 0
    /\ NestDepth(ps) = 0

PlainText(ps) == \A k \in 1..Len(ps) : ps[k] \in {<<NL>>, <<inclLogo>>}

\* C13: a comment whose body holds balanced nested tag pairs ends at the closing
\* tag that brings the depth back to 0 and not before: the body leaves its
\* newlines only, the text after that closing tag is kept whole, and an include
\* call in the body gives no edge of the graph.
C13_NestedCommentWhole ==
    sc.pc \in {"scanned", "restripped"} =>
        \A k \in 2..Len(sc.pieces) :
            LET body == SubSeq(sc.pieces, 2, k - 1)
                rest == SubSeq(sc.pieces, k + 1, Len(sc.pieces))
            IN /\ sc.pieces[1] = OPEN_COMMENT
               /\ sc.pieces[k] = CLOSE_TAG
               /\ BalancedBody(body)
               /\ PlainText(rest)
               => /\ sc.once = SelectSeq(Flatten(body), LAMBDA ch : ch = NL) \o Flatten(rest)
                  /\ sc.targets = IF <<inclLogo>> \in Range(rest) THEN <<logo>> ELSE <<>>

\* The comment holds an include call inside a nested pair; nothing is left of it.
C13_Witness ==
    /\ sc.pc = "scanned"
    /\ sc.pieces = <<OPEN_COMMENT, OPEN_TAG, <<inclLogo>>, CLOSE_TAG, CLOSE_TAG>>
    /\ sc.once = <<>>
    /\ sc.targets = <<>>

ESCAPED_OPEN == <<"<", "%", "%">>

\* ps is a comment body of text, newlines and escaped delimiters, one at least.
EscapedBody(ps) ==
    /\ \A k \in 1..Len(ps) : ps[k] \in {ESCAPED_OPEN, <<NL>>, <<inclLogo>>}
    /\ ESCAPED_OPEN \in Range(ps)

\* Whether the text is a comment with the body of pieces 2..k-1, closed by piece
\* k and followed by plain text.
EscapedComment(k) ==
    /\ sc.pieces[1] = OPEN_COMMENT
    /\ sc.pieces[k] = CLOSE_TAG
    /\ EscapedBody(SubSeq(sc.pieces, 2, k - 1))
    /\ PlainText(SubSeq(sc.pieces, k + 1, Len(sc.pieces)))

\* C23 as amended: inside a comment an escaped delimiter <%% is skipped, nothing
\* of it reaches the output, and it does not change the depth: the comment ends
\* at the first closing tag and leaves its newlines only.
C23_EscapeSkipped ==
    sc.pc \in {"stripped", "scanned", "restripped"} =>
        \A k \in 2..Len(sc.pieces) :
            EscapedComment(k) =>
                sc.once = SelectSeq(Flatten(SubSeq(sc.pieces, 2, k - 1)), LAMBDA ch : ch = NL)
                          \o Flatten(SubSeq(sc.pieces, k + 1, Len(sc.pieces)))

\* C23 as stated: the escaped delimiter is copied through verbatim to the output
\* (and does not change the depth).
C23_EscapeCopied ==
    sc.pc \in {"stripped", "scanned", "restripped"} =>
        \A k \in 2..Len(sc.pieces) :
            EscapedComment(k) =>
                sc.once = Flatten(SelectSeq(SubSeq(sc.pieces, 2, k - 1),
                                            LAMBDA x : x \in {ESCAPED_OPEN, <<NL>>}))
                          \o Flatten(SubSeq(sc.pieces, k + 1, Len(sc.pieces)))

\* A comment holding an escaped delimiter and a newline: the newline is all it leaves.
C23_Witness ==
    /\ sc.pc = "stripped"
    /\ sc.pieces = <<OPEN_COMMENT, ESCAPED_OPEN, <<NL>>, CLOSE_TAG, <<inclLogo>>>>
    /\ sc.once = <<NL, inclLogo>>

\* ps is the inside of a comment that is still open at its end: text, newlines
\* and tags, with never more closing tags than nested opening ones.
OpenTail(ps) ==
    /\ \A k \in 1..Len(ps) : ps[k] \in {OPEN_TAG, CLOSE_TAG, <<NL>>, <<inclLogo>>}
    /\ \A k \in 1..Len(ps) : NestDepth(SubSeq(ps, 1, k)) >= 0

\* Whether the text is plain text, then the opening marker of a comment as piece
\* k, then a tail that does not close the comment.
Unterminated(k) ==
    /\ PlainText(SubSeq(sc.pieces, 1, k - 1))
    /\ sc.pieces[k] = OPEN_COMMENT
    /\ OpenTail(SubSeq(sc.pieces, k + 1, Len(sc.pieces)))

\* C24 as amended: for an unterminated comment stripEjsComments returns (no error)
\* the text before the opening marker followed by the newlines of the region from
\* the marker to the end of input, and nothing else of that region.
C24_UnterminatedKeepsNewlines ==
    sc.pc \in {"stripped", "scanned", "restripped"} =>
        \A k \in 1..Len(sc.pieces) :
            Unterminated(k) =>
                sc.once = Flatten(SubSeq(sc.pieces, 1, k - 1))
                          \o SelectSeq(Flatten(SubSeq(sc.pieces, k + 1, Len(sc.pieces))),
                                       LAMBDA ch : ch = NL)

\* C24 as stated: nothing is emitted for the region from the opening marker to
\* the end of input.
C24_UnterminatedEmitsNothing ==
    sc.pc \in {"stripped", "scanned", "restripped"} =>
        \A k \in 1..Len(sc.pieces) :
            Unterminated(k) => sc.once = Flatten(SubSeq(sc.pieces, 1, k - 1))

\* Text, then a comment that is never closed and holds two newlines and an open tag.
C24_Witness ==
    /\ sc.pc = "stripped"
    /\ sc.pieces = <<<<inclLogo>>, OPEN_COMMENT, <<NL>>, OPEN_TAG, <<NL>>>>
    /\ sc.once = <<inclLogo, NL, NL>>

\* ---------------------------------------------------------------- compile-ejs.js: rendering
RECURSIVE CommonPrefixLen(_, _)
CommonPrefixLen(s, t) ==
    IF s = <<>> \/ t = <<>> \/ Head(s) # Head(t) THEN 0
    ELSE 1 + CommonPrefixLen(Tail(s), Tail(t))

\* path.relative(from, to) of two absolute directories, as segments
pathRelative(from, to) ==
    LET k == CommonPrefixLen(from, to)
    IN [i \in 1..(Len(from) - k) |-> ".."] \o SubSeq(to, k + 1, Len(to))

\* The output file of a page: its place below PAGES_DIR mirrored below OUT_DIR,
\* a trailing .ejs replaced by .html.
outPath(pageFileAbs) ==
    Path(ResolveSegs(OUT_DIR, pathRelative(PAGES_DIR, pageFileAbs.dir)),
         pageFileAbs.stem,
         IF pageFileAbs.ext = ".ejs" THEN ".html" ELSE pageFileAbs.ext)

\* The file an include() call of ejs names: the reference resolved against the
\* directory of the including file, .ejs appended when it has no extension.
ejsIncludePath(fromFile, includePath) ==
    LET base == pathResolve(dirname(fromFile), includePath)
    IN IF extname(includePath) = "" THEN Path(base.dir, base.stem, ".ejs") ELSE base

\* Includes nested deeper than this are a cycle: ejs recurses until the stack overflows.
MaxIncludeDepth == Cardinality(Templates) + 1

RenderError == [err |-> TRUE, html |-> <<>>]

RECURSIVE ejsRender(_, _, _, _)
\* ejs renders the text of file (read through ejs.fileLoader = readEjsFile): the
\* html is the text with every include() replaced by the rendered fragment.  It
\* throws when an included file cannot be read or the includes do not end.
ejsRender(ex, co, file, fuel) ==
    IF fuel = 0 THEN RenderError
    ELSE LET parts == [k \in 1..Len(co[file]) |->
                         LET t == ejsIncludePath(file, co[file][k])
                         IN IF t \notin ex THEN RenderError
                            ELSE ejsRender(ex, co, t, fuel - 1)]
         IN IF \E k \in 1..Len(parts) : parts[k].err THEN RenderError
            ELSE [err |-> FALSE,
                  html |-> <<[file |-> file, text |-> co[file],
                              parts |-> [k \in 1..Len(parts) |-> parts[k].html]]>>]

\* ejs.render(template, data, { root, filename }) of compilePageWithPartials
render(ex, co, pageFileAbs) == ejsRender(ex, co, pageFileAbs, MaxIncludeDepth)

\* w = [out, written, calls, err]: the output tree, the files written (the 'Built'
\* log), what each call found (the page, whether it was on disk, whether it
\* rendered, whether its html is what the output file already held) and whether
\* a call has thrown.
NoWork(o) == [out |-> o, written |-> <<>>, calls |-> <<>>, err |-> FALSE]

CallOf(ex, co, w, pageFileAbs) ==
    LET r == render(ex, co, pageFileAbs)
        o == outPath(pageFileAbs)
    IN [page |-> pageFileAbs,
        present |-> existsSync(ex, pageFileAbs),
        ok |-> ~existsSync(ex, pageFileAbs) \/ ~r.err,
        same |-> existsSync(ex, pageFileAbs) /\ ~r.err /\ o \in DOMAIN w.out /\ w.out[o] = r.html]

compileSkippingSame(ex, co, w, pageFileAbs) ==
    LET r == render(ex, co, pageFileAbs)
        o == outPath(pageFileAbs)
        w1 == [w EXCEPT !.calls = Append(@, CallOf(ex, co, w, pageFileAbs))]
    IN IF ~existsSync(ex, pageFileAbs) THEN w1
       ELSE IF r.err THEN [w1 EXCEPT !.err = TRUE]
       ELSE IF o \in DOMAIN w.out /\ w.out[o] = r.html THEN w1
       ELSE [w1 EXCEPT !.out = MapSet(@, o, r.html), !.written = Append(@, o)]

compileUnguarded(ex, co, w, pageFileAbs) ==
    LET r == render(ex, co, pageFileAbs)
        o == outPath(pageFileAbs)
        w1 == [w EXCEPT !.calls = Append(@, CallOf(ex, co, w, pageFileAbs))]
    IN IF ~existsSync(ex, pageFileAbs) \/ r.err THEN [w1 EXCEPT !.err = TRUE]
       ELSE [w1 EXCEPT !.out = MapSet(@, o, r.html), !.written = Append(@, o)]

compilePageWithPartials(ex, co, w, pageFileAbs) ==
    LET r == render(ex, co, pageFileAbs)
        o == outPath(pageFileAbs)
        w1 == [w EXCEPT !.calls = Append(@, CallOf(ex, co, w, pageFileAbs))]
    IN IF ~existsSync(ex, pageFileAbs) THEN w1
       ELSE IF r.err THEN [w1 EXCEPT !.err = TRUE]
       ELSE [w1 EXCEPT !.out = MapSet(@, o, r.html), !.written = Append(@, o)]

compilePage(ex, co, w, pageFileAbs) == compilePageWithPartials(ex, co, w, pageFileAbs)

RECURSIVE CompileEach(_, _, _, _)
\* for (const page of pages) of compileAll: it ends at the first call that throws
CompileEach(ex, co, w, pages) ==
    IF pages = <<>> \/ w.err THEN w
    ELSE CompileEach(ex, co, compilePageWithPartials(ex, co, w, Head(pages)), Tail(pages))

compileAll(ex, co, w) == CompileEach(ex, co, w, walkDir(ex, PAGES_DIR))

\* ---------------------------------------------------------------- vite.config.js: ejsLiveReload
\* The texts an edit may leave in a file while the dev server runs.
EditContents(p) ==
    IF p = pageA THEN {<<>>, <<refUpNav>>}
    ELSE IF p = pageB THEN {<<>>, <<refUpUpNav>>}
    ELSE IF p = nav THEN {<<>>, <<refLogo>>}
    ELSE {<<>>}

\* The documents that include file p, directly or through fragments, on disk (ex, co).
DocsIncluding(ex, co, p) ==
    LET g == buildDependencyGraph(ex, co)
    IN (UpClosure(g, {p}) \ {p}) \cap Range(g.pages)

\* A file is created or modified outside the server; the watcher queues 'add' or 'change'.
FsWrite(p, c) ==
    /\ fsOps < MaxFsOps
    /\ fsOps' = fsOps + 1
    /\ exists' = exists \cup {p}
    /\ content' = [content EXCEPT ![p] = c]
    /\ events' = Append(events, [type |-> IF p \in exists THEN "change" ELSE "add",
                                 file |-> p, owed |-> {}, mid |-> flushes # <<>>])
    /\ UNCHANGED <<out, graph, pending, timer, timers, flushes, acc, ia, auxVars, srv,
                   clock>>

\* A file is removed outside the server; the watcher queues 'unlink'.
FsRemove(p) ==
    /\ fsOps < MaxFsOps
    /\ p \in exists
    /\ fsOps' = fsOps + 1
    /\ exists' = exists \ {p}
    /\ content' = [content EXCEPT ![p] = <<>>]
    /\ events' = Append(events, [type |-> "unlink", file |-> p,
                                 owed |-> IF IsPrefix(PARTIALS_DIR, p.dir)
                                          THEN DocsIncluding(exists, content, p) ELSE {},
                                 mid |-> flushes # <<>>])
    /\ UNCHANGED <<out, graph, pending, timer, timers, flushes, acc, ia, auxVars, srv,
                   clock>>

toAbs(p) == IF pathIsAbsolute(p) THEN p ELSE pathResolve(CWD, p)

\* setTimeout: a handle no armed timeout uses
NewHandle(tms, tm) == CHOOSE h \in 1..(Cardinality(tms) + 2) : h \notin tms \cup {tm}

\* setTimeout(() => flush(server), 25)
DEBOUNCE_MS == 25

scheduleRearming(pend, tm, tms, file) ==
    LET h == NewHandle(tms, tm)
    IN [pending |-> SetAdd(pend, file), timer |-> h, timers |-> tms \cup {h}]

scheduleDebouncing(pend, tm, tms, file) ==
    LET h == NewHandle(tms, tm)
    IN [pending |-> SetAdd(pend, file), timer |-> h, timers |-> (tms \ {tm}) \cup {h}]

schedule(pend, tm, tms, file) ==
    LET h == NewHandle(tms, tm)
    IN [pending |-> SetAdd(pend, file),
        timer |-> IF tm = 0 THEN h ELSE tm,
        timers |-> IF tm = 0 THEN tms \cup {h} ELSE tms]

\* The delays left once the timeouts tms are the armed ones: a timeout just armed
\* has the whole delay before it.
Rearmed(left, tms) == [h \in tms |-> IF h \in DOMAIN left THEN left[h] ELSE DEBOUNCE_MS]

MacrotaskMayRunAnytime == TRUE

\* Every await of flush is on a promise that is already settled (the awaited
\* functions do synchronous file I/O only), so flush continues in microtasks:
\* no timer or watcher callback runs before a started flush has returned.
MacrotaskMayRun == flushes = <<>> /\ srv.pc = "serving"

\* The watcher hands one notification to the handler made by mkHandler.
Deliver ==
    /\ events # <<>>
    /\ MacrotaskMayRun
    /\ LET e == Head(events)
       IN /\ events' = Tail(events)
          /\ IF e.file.ext # ".ejs"
             THEN UNCHANGED <<pending, timer, timers, acc, clock>>
             ELSE LET abs == toAbs(e.file)
                      r == schedule(pending, timer, timers, abs)
                  IN /\ pending' = r.pending
                     /\ timer' = r.timer
                     /\ timers' = r.timers
                     /\ acc' = [burst |-> Append(acc.burst, abs),
                                owed |-> acc.owed \cup e.owed,
                                mid |-> acc.mid \/ e.mid,
                                times |-> Append(acc.times,
                                                 IF acc.burst = <<>> THEN 0 ELSE clock.since)]
                     /\ clock' = [left |-> Rearmed(clock.left, r.timers),
                                  since |-> IF acc.burst = <<>> THEN 0 ELSE clock.since]
    /\ UNCHANGED <<fsVars, out, graph, flushes, fsOps, ia, auxVars, srv>>

flushPrologueKeepingTimer(pend, tm, tms) ==
    [changed |-> pend, pending |-> <<>>, timer |-> tm, timers |-> tms \ {tm}]

flushPrologueKeeping(pend, tm, tms) ==
    [changed |-> pend, pending |-> pend, timer |-> 0, timers |-> tms \ {tm}]

\* The synchronous start of flush: the pending set is copied and cleared, the timer cleared.
flushPrologue(pend, tm, tms) ==
    [changed |-> pend, pending |-> <<>>, timer |-> 0, timers |-> tms \ {tm}]

\* Time passes, as long as no armed timeout is due.
Tick ==
    /\ timers # {}
    /\ \A h \in timers : clock.left[h] > 0
    /\ LET d == CHOOSE n \in 1..TickMs :
                   /\ \A h \in timers : n <= clock.left[h]
                   /\ n = TickMs \/ \E h \in timers : n = clock.left[h]
       IN clock' = [left |-> [h \in timers |-> clock.left[h] - d],
                    since |-> clock.since + d]
    /\ UNCHANGED <<fsVars, out, events, graph, pending, timer, timers, flushes, fsOps, acc, ia,
                   auxVars, srv>>

\* The timeout h fires: flush starts and runs its synchronous prologue.
TimerFire(h) ==
    /\ h \in timers
    /\ clock.left[h] = 0
    /\ MacrotaskMayRun
    /\ LET r == flushPrologue(pending, timer, timers \ {h})
       IN /\ pending' = r.pending
          /\ timer' = r.timer
          /\ timers' = r.timers
          /\ flushes' = Append(flushes,
                [pc |-> "build", changed |-> r.changed, built |-> EmptyGraph,
                 impacted |-> <<>>, rest |-> <<>>, written |-> <<>>, calls |-> <<>>,
                 log |-> <<>>, used |-> EmptyGraph, docs |-> {}, out0 |-> out,
                 took |-> acc.burst, owed |-> acc.owed, mid |-> acc.mid,
                 times |-> acc.times, waited |-> clock.since])
          /\ clock' = [left |-> [k \in r.timers |-> clock.left[k]], since |-> 0]
    /\ acc' = NoAcc
    /\ UNCHANGED <<fsVars, out, events, graph, fsOps, ia, auxVars, srv>>

\* flush calls buildDependencyGraph, which scans the tree as it is now, and awaits it.
FlushBuild(i) ==
    /\ i \in 1..Len(flushes)
    /\ flushes[i].pc = "build"
    /\ flushes' = [flushes EXCEPT ![i] =
          [@ EXCEPT !.pc = "awaitBuild",
                    !.built = buildDependencyGraph(exists, content),
                    !.log = <<"build">>]]
    /\ UNCHANGED <<fsVars, out, events, graph, pending, timer, timers, fsOps, acc, ia, auxVars, srv,
                   clock>>

awaitedGraphStale(f, g) == g

\* graph = await buildDependencyGraph()
awaitedGraph(f, g) == f.built

compileNothing(ex, co, w) == w

\* The fallback of flush for an empty impacted set.
rebuildAll(ex, co, w) == compileAll(ex, co, w)

compileInsteadAll(ex, co, w, page) == compileAll(ex, co, w)

\* One turn of the loop of flush over the impacted pages.
rebuildPage(ex, co, w, page) == compilePage(ex, co, w, page)

\* flush resumes after the graph build: impact analysis, then compileAll or the
\* first compilePage, up to the next await.
FlushAnalyze(i) ==
    /\ i \in 1..Len(flushes)
    /\ flushes[i].pc = "awaitBuild"
    /\ LET f == flushes[i]
           g == awaitedGraph(f, graph)
           impacted == getImpactedPages(f.changed, g)
           w0 == [out |-> out, written |-> f.written, calls |-> f.calls, err |-> FALSE]
           w == IF Len(impacted) = 0 THEN rebuildAll(exists, content, w0)
                ELSE rebuildPage(exists, content, w0, Head(impacted))
       IN /\ graph' = g
          /\ out' = w.out
          /\ flushes' = [flushes EXCEPT ![i] =
                [f EXCEPT !.pc = IF w.err THEN "rejected" ELSE "awaitCompile",
                          !.impacted = impacted,
                          !.rest = IF Len(impacted) = 0 THEN <<>> ELSE Tail(impacted),
                          !.written = w.written,
                          !.calls = w.calls,
                          !.used = g,
                          !.docs = {p \in exists : IsPrefix(PAGES_DIR, p.dir) /\ p.ext = ".ejs"},
                          !.log = @ \o <<"analyze">> \o
                                  (IF Len(impacted) = 0 THEN <<"compileAll">>
                                   ELSE <<"compilePage">>)]]
    /\ UNCHANGED <<fsVars, events, pending, timer, timers, fsOps, acc, ia, auxVars, srv,
                   clock>>

\* flush resumes after a compilePage with impacted pages left: the next compilePage.
FlushCompileNext(i) ==
    /\ i \in 1..Len(flushes)
    /\ flushes[i].pc = "awaitCompile"
    /\ flushes[i].rest # <<>>
    /\ LET f == flushes[i]
           w == rebuildPage(exists, content,
                            [out |-> out, written |-> f.written, calls |-> f.calls,
                             err |-> FALSE],
                            Head(f.rest))
       IN /\ out' = w.out
          /\ flushes' = [flushes EXCEPT ![i] =
                [f EXCEPT !.pc = IF w.err THEN "rejected" ELSE "awaitCompile",
                          !.rest = Tail(@), !.written = w.written, !.calls = w.calls,
                          !.log = Append(@, "compilePage")]]
    /\ UNCHANGED <<fsVars, events, graph, pending, timer, timers, fsOps, acc, ia, auxVars, srv,
                   clock>>

\* flush resumes after the last compile: the full-reload message is sent, flush returns.
FlushReload(i) ==
    /\ i \in 1..Len(flushes)
    /\ flushes[i].pc = "awaitCompile"
    /\ flushes[i].rest = <<>>
    /\ flushes' = SubSeq(flushes, 1, i - 1) \o SubSeq(flushes, i + 1, Len(flushes))
    /\ UNCHANGED <<fsVars, out, events, graph, pending, timer, timers, fsOps, acc, ia, auxVars, srv,
                   clock>>

\* What node does with a rejected promise nobody handles: --unhandled-rejections,
\* throw by default.
RejectionModes == {"throw", "warn", "none"}

\* The dev server as started; the mode of the process shows at the first
\* rejection that nobody handles.
Serving == [pc |-> "serving", mode |-> "unset", rejections |-> <<>>]

\* The promise of flush is rejected.  The timer callback () => flush(server) has
\* dropped the promise and nothing else holds it, so no code of the program
\* receives the error; node raises it as an uncaught exception and the process
\* ends (throw), prints a warning (warn) or does nothing (none).
unhandledRejection(sv, mode) ==
    [pc |-> IF mode = "throw" THEN "crashed" ELSE "serving",
     mode |-> mode,
     rejections |-> Append(sv.rejections,
                           [caught |-> FALSE, printed |-> mode # "none",
                            ended |-> mode = "throw"])]

\* A compile has thrown: the promise of flush is rejected, the remaining documents
\* are not compiled and no reload is sent.
FlushReject(i) ==
    /\ i \in 1..Len(flushes)
    /\ flushes[i].pc = "rejected"
    /\ flushes' = SubSeq(flushes, 1, i - 1) \o SubSeq(flushes, i + 1, Len(flushes))
    /\ \E m \in RejectionModes :
          /\ srv.mode \in {"unset", m}
          /\ srv' = unhandledRejection(srv, m)
    /\ UNCHANGED <<fsVars, out, events, graph, pending, timer, timers, fsOps, acc, ia, auxVars,
                   clock>>

\* Project trees the dev server is started on.
InitLayouts ==
    {[ex |-> {pageA, pageB, nav, logo},
      co |-> [p \in Files |-> IF p = pageA THEN <<refUpNav>>
                              ELSE IF p = nav THEN <<refLogo>> ELSE <<>>]],
     [ex |-> {pageA, pageB, nav, logo},
      co |-> [p \in Files |-> IF p = pageA THEN <<refUpNav>>
                              ELSE IF p = pageB THEN <<refUpUpNav>>
                              ELSE IF p = nav THEN <<refLogo>> ELSE <<>>]],
     [ex |-> {},
      co |-> [p \in Files |-> <<>>]]}

\* gzero.js has run compileAll, configureServer has built the graph and registered
\* the watcher handlers.
Init ==
    /\ \E l \in InitLayouts : exists = l.ex /\ content = l.co
    /\ out = compileAll(exists, content, NoWork(EmptyMap)).out
    /\ graph = buildDependencyGraph(exists, content)
    /\ events = <<>>
    /\ pending = <<>>
    /\ timer = 0
    /\ timers = {}
    /\ flushes = <<>>
    /\ fsOps = 0
    /\ acc = NoAcc
    /\ clock = NoClock
    /\ srv = Serving
    /\ ia = IdleAnalysis
    /\ sc = IdleScan
    /\ sp = IdleSprite
    /\ bp = IdleBuild
    /\ gb = IdleGraphBuild
    /\ ri = IdleResolve

Next ==
    \/ \E p \in Files : \E c \in EditContents(p) : FsWrite(p, c)
    \/ \E p \in Files : FsRemove(p)
    \/ Deliver
    \/ Tick
    \/ \E h \in timers : TimerFire(h)
    \/ \E i \in 1..Len(flushes) : FlushBuild(i)
    \/ \E i \in 1..Len(flushes) : FlushAnalyze(i)
    \/ \E i \in 1..Len(flushes) : FlushCompileNext(i)
    \/ \E i \in 1..Len(flushes) : FlushReload(i)
    \/ \E i \in 1..Len(flushes) : FlushReject(i)

Spec == Init /\ [][Next]_vars

\* An armed timeout fires once the event loop is free.
FairSpec == Spec /\ WF_vars(Tick) /\ WF_vars(\E h \in timers : TimerFire(h))

\* ---------------------------------------------------------------- claims: the change scheduler
Flushes == Range(flushes)

Compiled(f) == f.pc = "awaitCompile" /\ f.rest = <<>>

OutPathsOf(pages) == {outPath(p) : p \in pages}

\* C4: the notifications between the first one of a burst and the firing of the
\* timer lead to exactly one flush, whose changed set is the burst's paths without
\* duplicates: one timeout is armed while a burst is open and none otherwise, and
\* every flush took a non-empty burst and carries its deduplicated paths.
C4_OneFlushPerBurst ==
    /\ Cardinality(timers) = IF acc.burst = <<>> THEN 0 ELSE 1
    /\ \A f \in Flushes : f.took # <<>> /\ f.changed = SetFromSeq(f.took)

\* Two notifications of the same file were flushed as one changed set of one path.
C4_Witness ==
    \E f \in Flushes : f.took = <<nav, nav>> /\ f.changed = <<nav>> /\ Compiled(f)

\* C5: flushes never overlap, and while one is in progress nothing is added to
\* pending and no timeout is armed: what is notified meanwhile waits for a later
\* flush, begun after this one has returned.
C5_NoOverlap ==
    /\ Len(flushes) <= 1
    /\ flushes # <<>> => pending = <<>> /\ timers = {} /\ acc = NoAcc

\* A flush handles a notification raised while an earlier flush was in progress.
C5_Witness ==
    \E f \in Flushes : f.mid /\ f.pc = "awaitCompile"

\* C6: every accepted notification path is in the changed set of a flush started
\* after it, once: between flush starts pending holds exactly the paths notified
\* since the last start and a timeout is armed for them, a flush takes exactly
\* those paths, and every pending path does reach a flush.
C6_NoLossNoRepeat ==
    /\ [](/\ Range(pending) = Range(acc.burst)
          /\ (pending # <<>> => timer \in timers)
          /\ \A f \in Flushes : Range(f.changed) = Range(f.took))
    /\ \A p \in Templates :
          (p \in Range(pending)) ~> (\E i \in 1..Len(flushes) : p \in Range(flushes[i].changed))

\* A flush took the path notified before it started while a notification raised
\* since waits for the next flush.
C6_Witness ==
    /\ \E f \in Flushes : f.changed = <<nav>> /\ f.took = <<nav>>
    /\ Len(events) = 1 /\ events[1].file = pageB
    /\ pending = <<>>

CompileLog(log) == \A k \in 1..Len(log) : log[k] \in {"compileAll", "compilePage"}

\* C7: within a flush the graph is rebuilt first, impact analysis then runs on
\* the graph built by this flush, and documents are compiled only after it.
C7_FlushOrder ==
    \A f \in Flushes :
        /\ f.pc = "build" => f.log = <<>> /\ f.written = <<>> /\ out = f.out0
        /\ f.pc = "awaitBuild" =>
              f.log = <<"build">> /\ f.written = <<>> /\ out = f.out0
        /\ f.pc \in {"awaitCompile", "rejected"} =>
              /\ f.used = f.built
              /\ f.impacted = getImpactedPages(f.changed, f.built)
              /\ Len(f.log) >= 3
              /\ SubSeq(f.log, 1, 2) = <<"build", "analyze">>
              /\ CompileLog(SubSeq(f.log, 3, Len(f.log)))

\* pageB was edited to include nav: the analysis read the graph holding that edge.
C7_Witness ==
    \E f \in Flushes :
        /\ f.pc = "awaitCompile"
        /\ f.impacted = <<pageB>>
        /\ Includes(f.used, pageB, nav)

C9_RemovedFragmentDependents ==
    \A f \in Flushes :
        Compiled(f) =>
            \A d \in f.owed : d \in f.docs => outPath(d) \in Range(f.written)

\* C10: a flush with a non-empty impacted set writes the output files of the
\* impacted documents only; every other output file is as it was at flush start.
C10_OnlyImpactedWritten ==
    \A f \in Flushes :
        f.impacted # <<>> =>
            /\ Range(f.written) \subseteq OutPathsOf(Range(f.impacted))
            /\ DOMAIN out = DOMAIN f.out0 \cup Range(f.written)
            /\ \A o \in DOMAIN f.out0 :
                  o \notin OutPathsOf(Range(f.impacted)) => out[o] = f.out0[o]

\* nav changed; a includes nav, b does not: only a's output is written.
C10_Witness ==
    \E f \in Flushes :
        /\ Compiled(f)
        /\ f.changed = <<nav>>
        /\ f.impacted = <<pageA>>
        /\ f.written = <<outPath(pageA)>>
        /\ outPath(pageB) \in DOMAIN out
        /\ pageB \in f.docs

\* ---------------------------------------------------------------- claims: the renderer/writer
\* The output files of the calls that found their document on disk and rendered it.
WritesDue(calls) ==
    LET due == SelectSeq(calls, LAMBDA c : c.present /\ c.ok)
    IN [k \in 1..Len(due) |-> outPath(due[k].page)]

\* C14 as amended: compiling a document that is on disk and renders writes its
\* output file every time, whether or not the html differs from what the file
\* holds; only a missing document or a render that throws leaves no write.
C14_WritesEveryCompile ==
    \A f \in Flushes : f.written = WritesDue(f.calls)

\* C14 as stated: an output file is written only when the compiled html differs
\* from what the file holds.
C14_WritesOnlyWhenDiffers ==
    \A f \in Flushes :
        \A k \in 1..Len(f.calls) :
            f.calls[k].same => outPath(f.calls[k].page) \notin Range(f.written)

\* A document was compiled to the html its output file already held, and written.
C14_Witness ==
    \E f \in Flushes :
        /\ Compiled(f)
        /\ \E k \in 1..Len(f.calls) :
              /\ f.calls[k].same
              /\ outPath(f.calls[k].page) \in Range(f.written)
              /\ out[outPath(f.calls[k].page)] = f.out0[outPath(f.calls[k].page)]

\* C15: compiling a document that is no longer on disk writes nothing and throws
\* nothing, and the impacted documents after it are compiled all the same: a
\* flush is rejected only by a document that is on disk, and a flush that was not
\* rejected has called the compile of every impacted document.
C15_MissingDocNoOp ==
    \A f \in Flushes :
        /\ \A k \in 1..Len(f.calls) :
              ~f.calls[k].present =>
                  /\ f.calls[k].ok
                  /\ outPath(f.calls[k].page) \notin Range(f.written)
                  /\ \A o \in DOMAIN f.out0 :
                        o = outPath(f.calls[k].page) => o \in DOMAIN out /\ out[o] = f.out0[o]
        /\ f.pc = "rejected" =>
              f.calls # <<>> /\ f.calls[Len(f.calls)].present /\ ~f.calls[Len(f.calls)].ok
        /\ f.pc = "awaitCompile" /\ f.impacted # <<>> =>
              /\ [k \in 1..Len(f.calls) |-> f.calls[k].page] \o f.rest = f.impacted
              /\ \A k \in 1..Len(f.calls) :
                    f.calls[k].present => outPath(f.calls[k].page) \in Range(f.written)

\* Both documents were impacted; a was removed before its compile, b was compiled.
C15_Witness ==
    \E f \in Flushes :
        /\ Compiled(f)
        /\ f.impacted = <<pageA, pageB>>
        /\ ~f.calls[1].present
        /\ f.written = <<outPath(pageB)>>


\* ---------------------------------------------------------------- svg-sprite.js, watch-icons.js
\* The .svg files the icons directory can hold, in the order of their names.
IconOrder == <<"a.svg", "b.svg">>
IconNames == Range(IconOrder)

\* What a file can hold: nothing readable (no file, or read error: ''), the sprite
\* written for a missing icons directory, a sprite of symbols, or the beginning
\* of a content that is still being written.
NoContent == [kind |-> "none", symbols |-> <<>>]
emptySprite == [kind |-> "emptySprite", symbols |-> <<>>]
PartialContent == [kind |-> "partial", symbols |-> <<>>]

\* The sprite of the icons read: one symbol per file, sorted by file name.
spriteOf(raw) ==
    LET names == SelectSeq(IconOrder, LAMBDA n : n \in DOMAIN raw)
    IN [kind |-> "sprite", symbols |-> [k \in 1..Len(names) |-> <<names[k], raw[names[k]]>>]]

sortSkipped(symbols) == symbols

\* symbols.sort((a, b) => a.fileName < b.fileName ? -1 : ...): file names are unique
sortSymbols(symbols) ==
    LET names == SelectSeq(IconOrder, LAMBDA n : \E k \in 1..Len(symbols) : symbols[k][1] = n)
    IN [j \in 1..Len(names) |->
          symbols[CHOOSE k \in 1..Len(symbols) : symbols[k][1] = names[j]]]

\* The sprite put together from the symbols pushed: they are sorted, then joined.
spriteFrom(symbols) == [kind |-> "sprite", symbols |-> sortSymbols(symbols)]

\* readFile(outputFileAbs, 'utf8').catch(() => '')
readOutput(fs) ==
    IF fs.final = 0 THEN NoContent ELSE fs.inodes[fs.final]

\* const DEBOUNCE_MS = 20 of watch-icons.js
ICONS_DEBOUNCE_MS == 20

nonWatcherVars == <<fsVars, out, events, graph, pending, timer, timers, flushes, fsOps, acc, ia,
                    sc, bp, srv, gb, ri>>

nonSpriteVars == <<nonWatcherVars, clock>>

\* An icon file is created or rewritten; fs.watch queues an event for it.
IconWrite(n) ==
    /\ sp.pc = "watching"
    /\ sp.dir
    /\ sp.ops < MaxIconOps
    /\ sp' = [sp EXCEPT !.ops = @ + 1,
                        !.icons[n] = IF @ = 1 THEN 2 ELSE 1,
                        !.svgEvents = @ + 1,
                        !.events = Append(@, n)]
    /\ UNCHANGED nonSpriteVars

\* An icon file is removed.
IconRemove(n) ==
    /\ sp.pc = "watching"
    /\ sp.icons[n] # 0
    /\ sp.ops < MaxIconOps
    /\ sp' = [sp EXCEPT !.ops = @ + 1, !.icons[n] = 0, !.svgEvents = @ + 1,
                        !.events = Append(@, n)]
    /\ UNCHANGED nonSpriteVars

\* A file that is no .svg changes in the icons directory.
IconOther ==
    /\ sp.pc = "watching"
    /\ sp.dir
    /\ sp.ops < MaxIconOps
    /\ sp' = [sp EXCEPT !.ops = @ + 1, !.events = Append(@, "notes.txt")]
    /\ UNCHANGED nonSpriteVars

\* The icons directory is removed with what it holds.
IconsDirRemove ==
    /\ sp.pc = "watching"
    /\ sp.dir
    /\ sp.ops < MaxIconOps
    /\ sp' = [sp EXCEPT !.ops = @ + 1, !.dir = FALSE,
                        !.icons = [n \in IconNames |-> 0],
                        !.svgEvents = @ + Len(SelectSeq(IconOrder, LAMBDA n : sp.icons[n] # 0)),
                        !.events = @ \o SelectSeq(IconOrder, LAMBDA n : sp.icons[n] # 0)]
    /\ UNCHANGED nonSpriteVars

scheduleRebuildOnce(debounceTimer, tms) ==
    LET h == NewHandle(tms, 0)
    IN IF debounceTimer # 0 THEN [debounceTimer |-> debounceTimer, timers |-> tms, armed |-> {}]
       ELSE [debounceTimer |-> h, timers |-> tms \cup {h}, armed |-> {h}]

\* scheduleRebuild: the armed timeout is cleared and a new one armed.
scheduleRebuild(debounceTimer, tms) ==
    LET cleared == tms \ {debounceTimer}
        h == NewHandle(cleared, 0)
    IN [debounceTimer |-> h, timers |-> cleared \cup {h}, armed |-> {h}]

\* The callback of fs.watch for the oldest queued event.
IconsWatch ==
    /\ sp.pc = "watching"
    /\ sp.events # <<>>
    /\ LET filename == Head(sp.events)
           r == scheduleRebuild(sp.debounceTimer, sp.timers)
       IN IF filename \notin IconNames
          THEN /\ sp' = [sp EXCEPT !.events = Tail(@)]
               /\ UNCHANGED clock
          ELSE /\ sp' = [sp EXCEPT !.events = Tail(@),
                                   !.debounceTimer = r.debounceTimer,
                                   !.timers = r.timers,
                                   !.burst = Append(@, IF @ = <<>> THEN 0 ELSE clock.since)]
               /\ clock' = [left |-> [h \in r.timers |->
                                         IF h \in r.armed THEN ICONS_DEBOUNCE_MS
                                         ELSE clock.left[h]],
                            since |-> 0]
    /\ UNCHANGED nonWatcherVars

\* Time passes in the icons watcher, as long as no armed timeout is due.
IconTick ==
    /\ sp.pc = "watching"
    /\ sp.timers # {}
    /\ \A h \in sp.timers : clock.left[h] > 0
    /\ LET d == CHOOSE n \in 1..IconTickMs :
                   /\ \A h \in sp.timers : n <= clock.left[h]
                   /\ n = IconTickMs \/ \E h \in sp.timers : n = clock.left[h]
       IN clock' = [left |-> [h \in sp.timers |-> clock.left[h] - d],
                    since |-> clock.since + d]
    /\ UNCHANGED <<nonWatcherVars, sp>>

NewCall == [pc |-> "readdir", enoent |-> FALSE, listed |-> <<>>, symbols |-> <<>>,
            sprite |-> NoContent,
            existing |-> NoContent, fd |-> 0, opened |-> FALSE, renamed |-> FALSE,
            solo |-> TRUE, genStart |-> 0, burst |-> <<>>, quiet |-> 0, failedAt |-> ""]

Running(c) == c.pc \notin {"done", "failed"}

\* The debounce timeout fires: rebuild() calls generateSvgSprite, which runs to
\* its first await.
RebuildStart(h) ==
    /\ sp.pc = "watching"
    /\ h \in sp.timers
    /\ clock.left[h] = 0
    /\ Len(sp.calls) < MaxCalls
    /\ LET alone == \A k \in 1..Len(sp.calls) : ~Running(sp.calls[k])
       IN sp' = [sp EXCEPT
                   !.timers = @ \ {h},
                   !.debounceTimer = IF @ = h THEN 0 ELSE @,
                   !.burst = <<>>,
                   !.calls = Append([k \in 1..Len(@) |->
                                        IF Running(@[k]) THEN [@[k] EXCEPT !.solo = FALSE]
                                        ELSE @[k]],
                                    [NewCall EXCEPT !.solo = alone, !.genStart = sp.ops,
                                                    !.burst = sp.burst,
                                                    !.quiet = clock.since])]
    /\ clock' = [left |-> [k \in sp.timers \ {h} |-> clock.left[k]], since |-> clock.since]
    /\ UNCHANGED nonWatcherVars

\* await readdir(iconsDirAbs): the .svg files listed, or ENOENT.
CallReaddir(i) ==
    /\ i \in 1..Len(sp.calls)
    /\ sp.calls[i].pc = "readdir"
    /\ LET listed == SelectSeq(IconOrder, LAMBDA n : sp.icons[n] # 0)
       IN sp' = [sp EXCEPT !.calls[i] =
                   IF ~sp.dir
                   THEN [@ EXCEPT !.pc = "readExisting", !.enoent = TRUE,
                                  !.sprite = emptySprite]
                   ELSE IF listed = <<>>
                        THEN [@ EXCEPT !.pc = "readExisting", !.sprite = spriteFrom(<<>>)]
                        ELSE [@ EXCEPT !.pc = "readIcons", !.listed = listed]]
    /\ UNCHANGED nonSpriteVars

\* One of the parallel reads of Promise.all completes, in any order: its symbol is
\* pushed, or the read fails and the call is rejected; after the last one the
\* symbols are sorted and the sprite is put together.
CallReadIcon(i, n) ==
    /\ i \in 1..Len(sp.calls)
    /\ sp.calls[i].pc = "readIcons"
    /\ n \in Range(sp.calls[i].listed)
    /\ \A k \in 1..Len(sp.calls[i].symbols) : sp.calls[i].symbols[k][1] # n
    /\ LET c == sp.calls[i]
           symbols == Append(c.symbols, <<n, sp.icons[n]>>)
       IN sp' = [sp EXCEPT !.calls[i] =
                   IF sp.icons[n] = 0
                   THEN [@ EXCEPT !.pc = "failed", !.failedAt = "readFile"]
                   ELSE IF Len(symbols) < Len(c.listed)
                        THEN [@ EXCEPT !.symbols = symbols]
                        ELSE [@ EXCEPT !.pc = "readExisting", !.symbols = symbols,
                                       !.sprite = spriteFrom(symbols)]]
    /\ UNCHANGED nonSpriteVars

skipsWriteNever(existing, sprite) == FALSE

\* if (existing === sprite) return;
skipsWrite(existing, sprite) == existing = sprite

\* await readFile(outputFileAbs) and the comparison with the sprite.
CallReadExisting(i) ==
    /\ i \in 1..Len(sp.calls)
    /\ sp.calls[i].pc = "readExisting"
    /\ LET existing == readOutput(sp.fs)
       IN sp' = [sp EXCEPT !.calls[i] =
                   [@ EXCEPT !.existing = existing,
                             !.pc = IF skipsWrite(existing, sp.calls[i].sprite)
                                    THEN "done" ELSE "open"]]
    /\ UNCHANGED nonSpriteVars

\* writeFile(tmpFile, ...) opens the temporary path for writing: the file there is
\* truncated, or a new one is created.
CallOpen(i) ==
    /\ i \in 1..Len(sp.calls)
    /\ sp.calls[i].pc = "open"
    /\ LET ino == IF sp.fs.tmp # 0 THEN sp.fs.tmp ELSE Len(sp.fs.inodes) + 1
       IN sp' = [sp EXCEPT
                   !.fs = [final |-> sp.fs.final, tmp |-> ino,
                           inodes |-> IF sp.fs.tmp # 0
                                      THEN [sp.fs.inodes EXCEPT ![ino] = PartialContent]
                                      ELSE Append(sp.fs.inodes, PartialContent)],
                   !.calls[i] = [@ EXCEPT !.pc = "write", !.fd = ino, !.opened = TRUE]]
    /\ UNCHANGED nonSpriteVars

\* writeFile writes the sprite through its descriptor and closes it.
CallWrite(i) ==
    /\ i \in 1..Len(sp.calls)
    /\ sp.calls[i].pc = "write"
    /\ sp' = [sp EXCEPT !.fs.inodes[sp.calls[i].fd] = sp.calls[i].sprite,
                        !.calls[i] = [@ EXCEPT !.pc = "rename"]]
    /\ UNCHANGED nonSpriteVars

\* await rename(tmpFile, outputFileAbs): ENOENT when the temporary path is gone.
CallRename(i) ==
    /\ i \in 1..Len(sp.calls)
    /\ sp.calls[i].pc = "rename"
    /\ sp' = IF sp.fs.tmp = 0
             THEN [sp EXCEPT !.calls[i] = [@ EXCEPT !.pc = "failed", !.failedAt = "rename"]]
             ELSE [sp EXCEPT !.fs.final = sp.fs.tmp, !.fs.tmp = 0,
                             !.calls[i] = [@ EXCEPT !.pc = "done", !.renamed = TRUE]]
    /\ UNCHANGED nonSpriteVars

\* watch-icons.js has started on an icons directory that exists; the sprite file
\* is absent or holds an earlier sprite.
InitSprite ==
    /\ \E ic \in [IconNames -> {0, 1}] : \E old \in {0, 1, 2} :
          sp = [pc |-> "watching", dir |-> TRUE, icons |-> ic, ops |-> 0, events |-> <<>>,
                debounceTimer |-> 0, timers |-> {}, burst |-> <<>>, svgEvents |-> 0,
                calls |-> <<>>,
                fs |-> [final |-> IF old = 0 THEN 0 ELSE 1, tmp |-> 0,
                        inodes |-> IF old = 0 THEN <<>>
                                   ELSE IF old = 1 THEN <<spriteOf(<<>>)>>
                                   ELSE <<emptySprite>>]]
    /\ exists = {}
    /\ content = [p \in Files |-> <<>>]
    /\ graph = EmptyGraph
    /\ ia = IdleAnalysis
    /\ out = EmptyMap
    /\ events = <<>>
    /\ pending = <<>>
    /\ timer = 0
    /\ timers = {}
    /\ flushes = <<>>
    /\ fsOps = 0
    /\ acc = NoAcc
    /\ clock = NoClock
    /\ sc = IdleScan
    /\ bp = IdleBuild
    /\ gb = IdleGraphBuild
    /\ ri = IdleResolve
    /\ srv = IdleServer

NextSprite ==
    \/ \E n \in IconNames : IconWrite(n)
    \/ \E n \in IconNames : IconRemove(n)
    \/ IconOther
    \/ IconsDirRemove
    \/ IconsWatch
    \/ IconTick
    \/ \E h \in sp.timers : RebuildStart(h)
    \/ \E i \in 1..Len(sp.calls) : CallReaddir(i)
    \/ \E i \in 1..Len(sp.calls) : \E n \in IconNames : CallReadIcon(i, n)
    \/ \E i \in 1..Len(sp.calls) : CallReadExisting(i)
    \/ \E i \in 1..Len(sp.calls) : CallOpen(i)
    \/ \E i \in 1..Len(sp.calls) : CallWrite(i)
    \/ \E i \in 1..Len(sp.calls) : CallRename(i)

SpecSprite == InitSprite /\ [][NextSprite]_vars


\* ---------------------------------------------------------------- claims: the sprite writer
Compared(c) == c.pc \notin {"readdir", "readIcons", "readExisting"}

\* C16: a generateSvgSprite call whose sprite equals the content of the output
\* file opens no temporary file and renames nothing; so of two calls that run one
\* after the other, undisturbed, on an icons directory that did not change, at
\* most one replaces the output file.
C16_SkipsIdenticalWrite ==
    /\ \A k \in 1..Len(sp.calls) :
          LET c == sp.calls[k]
          IN Compared(c) /\ c.existing = c.sprite => ~c.opened /\ ~c.renamed
    /\ \A k \in 1..(Len(sp.calls) - 1) :
          LET c == sp.calls[k]
              d == sp.calls[k + 1]
          IN c.solo /\ d.solo /\ c.pc = "done" /\ d.pc = "done" /\ c.genStart = sp.ops
             => ~(c.renamed /\ d.renamed)

\* The first call replaced the output file; the second, on the same icons, found
\* its sprite there and wrote nothing.
C16_Witness ==
    /\ Len(sp.calls) = 2
    /\ sp.calls[1].solo /\ sp.calls[1].pc = "done" /\ sp.calls[1].renamed
    /\ sp.calls[1].genStart = sp.ops
    /\ sp.calls[2].solo /\ sp.calls[2].pc = "done"
    /\ sp.calls[2].existing = sp.calls[2].sprite
    /\ sp.calls[2].sprite = spriteOf([n \in IconNames |-> 1])
    /\ ~sp.calls[2].opened

\* C17: whoever reads the output path finds a content that was written whole,
\* the previous one or the new one, never the beginning of one.
C17_OutputNeverPartial ==
    sp.pc = "watching" /\ sp.fs.final # 0 => sp.fs.inodes[sp.fs.final] # PartialContent

\* ---------------------------------------------------------------- claims: the icons watcher
RECURSIVE EventsOf(_)
\* The number of .svg events the bursts of the calls hold.
EventsOf(calls) ==
    IF calls = <<>> THEN 0 ELSE Len(Head(calls).burst) + EventsOf(Tail(calls))

\* C27: every .svg event clears the armed timeout and arms a new one, so at most
\* one timeout is armed, it is due ICONS_DEBOUNCE_MS after the last .svg event,
\* and a rebuild starts only after that long without a .svg event; the .svg
\* events of a burst start one rebuild, after the last of them, and an event for
\* another file arms nothing.
C27_RebuildAfterQuiet ==
    sp.pc = "watching" =>
        /\ sp.timers = IF sp.burst = <<>> THEN {} ELSE {sp.debounceTimer}
        /\ sp.burst # <<>> =>
              clock.left[sp.debounceTimer] + clock.since = ICONS_DEBOUNCE_MS
        /\ \A k \in 1..Len(sp.calls) :
              /\ sp.calls[k].burst # <<>>
              /\ sp.calls[k].quiet = ICONS_DEBOUNCE_MS
        /\ EventsOf(sp.calls) + Len(sp.burst) + Len(SelectSeq(sp.events, LAMBDA f : f \in IconNames))
              = sp.svgEvents

\* Two .svg events less than ICONS_DEBOUNCE_MS apart: one rebuild, started
\* ICONS_DEBOUNCE_MS after the second of them.
C27_Witness ==
    /\ Len(sp.calls) = 1
    /\ Len(sp.calls[1].burst) = 2
    /\ sp.calls[1].burst[2] \in 1..(ICONS_DEBOUNCE_MS - 1)
    /\ sp.calls[1].quiet = ICONS_DEBOUNCE_MS
    /\ sp.timers = {}
    /\ sp.events = <<>>
    /\ sp.ops = 2

\* C28: the sprite of a call does not depend on the order in which its parallel
\* reads complete: its symbols are those of the files read, sorted by file name.
C28_SymbolsSorted ==
    sp.pc = "watching" =>
        \A k \in 1..Len(sp.calls) :
            LET c == sp.calls[k]
            IN c.pc \notin {"readdir", "readIcons", "failed"} /\ ~c.enoent =>
                   /\ [j \in 1..Len(c.sprite.symbols) |-> c.sprite.symbols[j][1]] = c.listed
                   /\ Range(c.sprite.symbols) = Range(c.symbols)

\* The read of b.svg completed before the read of a.svg: a.svg comes first in the sprite.
C28_Witness ==
    \E k \in 1..Len(sp.calls) :
        /\ sp.calls[k].pc = "done"
        /\ Len(sp.calls[k].symbols) = 2
        /\ sp.calls[k].symbols[1][1] = "b.svg"
        /\ sp.calls[k].symbols[2][1] = "a.svg"
        /\ sp.calls[k].sprite.symbols[1][1] = "a.svg"
        /\ sp.calls[k].sprite.symbols[2][1] = "b.svg"
\* No event is queued, no timeout armed, and every rebuild has finished.
Quiescent ==
    /\ sp.events = <<>>
    /\ sp.timers = {}
    /\ \A k \in 1..Len(sp.calls) : ~Running(sp.calls[k])

\* The sprite of the icons directory as it is now.
LatestSprite ==
    IF sp.dir THEN spriteOf([n \in {m \in IconNames : sp.icons[m] # 0} |-> sp.icons[n]])
    ELSE emptySprite

\* C29: once all rebuilds have finished, the last of them started after the last
\* change, the sprite file holds the sprite of the icons directory as it is now,
\* and no rebuild has failed on the temporary path it shares with the others.
C29_LatestSpriteWins ==
    (/\ sp.pc = "watching"
     /\ Quiescent
     /\ sp.calls # <<>>
     /\ sp.calls[Len(sp.calls)].genStart = sp.ops)
    => /\ readOutput(sp.fs) = LatestSprite
       /\ \A k \in 1..Len(sp.calls) : sp.calls[k].failedAt # "rename"

\* ---------------------------------------------------------------- bin/gzero-build.js
\* The code the 'exit' event carries for a child killed by a signal: null.
NullCode == -1

\* How a spawned node process can end: it exits with a code, it is killed by a
\* signal, or it could not be spawned ('error' is emitted, no 'exit').
ChildOutcomes ==
    {[kind |-> "exit", code |-> 0], [kind |-> "exit", code |-> 1], [kind |-> "exit", code |-> 2],
     [kind |-> "signal", code |-> NullCode], [kind |-> "error", code |-> NullCode]}

nonBuildVars == <<fsVars, events, graph, pending, timer, timers, flushes, fsOps, acc, ia, sc, sp,
                  clock, srv, gb, ri>>

\* process.exitCode of a process that has not exited.
StillRunning == -1

\* The stage has begun; how it ends is noted.
StageStart(b, stage, outcome) ==
    [b EXCEPT !.started = Append(@, stage), !.ends = Append(@, outcome)]

\* The awaited promise of the stage is fulfilled: the next statement runs.
StageDone(b, stage, next) == [b EXCEPT !.pc = next, !.succeeded = Append(@, stage)]

\* The awaited promise is rejected: .catch logs the error and calls process.exit(1).
StageRejected(b, stage) == [b EXCEPT !.pc = "exited", !.failed = Append(@, stage), !.code = 1]

\* require.resolve('vite/package.json'): without vite the CLI exits with 1 at once.
BuildResolveVite ==
    /\ bp.pc = "resolve"
    /\ bp' = IF bp.vite THEN [bp EXCEPT !.pc = "compile"]
             ELSE [bp EXCEPT !.pc = "exited", !.code = 1]
    /\ UNCHANGED <<nonBuildVars, out>>

\* await compileAll()
BuildCompile ==
    /\ bp.pc = "compile"
    /\ LET w == compileAll(exists, content, NoWork(out))
           b == StageStart(bp, "compile",
                           [kind |-> IF w.err THEN "throw" ELSE "return", code |-> NullCode])
       IN /\ out' = w.out
          /\ bp' = IF w.err THEN StageRejected(b, "compile") ELSE StageDone(b, "compile", "vite")
    /\ UNCHANGED nonBuildVars

exitResolvesAlways(code) == TRUE

\* child.on('exit'): if (code === 0) resolve(); else reject(...)
exitResolves(code) == code = 0

\* The end of a process started by runNode, seen from the pipeline.
runNode(b, stage, next, outcome) ==
    LET b1 == StageStart(b, stage, outcome)
    IN IF outcome.kind = "error"
       THEN [b1 EXCEPT !.pc = "exited", !.failed = Append(@, stage), !.code = 1]
       ELSE IF exitResolves(outcome.code)
            THEN StageDone(b1, stage, next)
            ELSE StageRejected(b1, stage)

\* await runNode([viteBin, 'build', '--config', configPath])
BuildVite(outcome) ==
    /\ bp.pc = "vite"
    /\ bp' = runNode(bp, "vite", "minify", outcome)
    /\ UNCHANGED <<nonBuildVars, out>>

\* await runNode([minifyScript])
BuildMinify(outcome) ==
    /\ bp.pc = "minify"
    /\ bp' = runNode(bp, "minify", "end", outcome)
    /\ UNCHANGED <<nonBuildVars, out>>

\* The async function has returned and nothing is left to run: node exits with 0.
BuildEnd ==
    /\ bp.pc = "end"
    /\ bp' = [bp EXCEPT !.pc = "exited", !.code = 0]
    /\ UNCHANGED <<nonBuildVars, out>>

\* gzero-build is started on a project tree, with or without vite installed.
InitBuild ==
    /\ exists \in SUBSET Files
    /\ content \in Layouts(exists)
    /\ \E v \in BOOLEAN :
          bp = [pc |-> "resolve", vite |-> v, started |-> <<>>, ends |-> <<>>,
                succeeded |-> <<>>, failed |-> <<>>, code |-> StillRunning]
    /\ graph = EmptyGraph
    /\ ia = IdleAnalysis
    /\ out = EmptyMap
    /\ events = <<>>
    /\ pending = <<>>
    /\ timer = 0
    /\ timers = {}
    /\ flushes = <<>>
    /\ fsOps = 0
    /\ acc = NoAcc
    /\ clock = NoClock
    /\ sc = IdleScan
    /\ sp = IdleSprite
    /\ gb = IdleGraphBuild
    /\ ri = IdleResolve
    /\ srv = IdleServer

NextBuild ==
    \/ BuildResolveVite
    \/ BuildCompile
    \/ \E o \in ChildOutcomes : BuildVite(o)
    \/ \E o \in ChildOutcomes : BuildMinify(o)
    \/ BuildEnd

SpecBuild == InitBuild /\ [][NextBuild]_vars

\* ---------------------------------------------------------------- claims: the production build
Stages == <<"compile", "vite", "minify">>

\* The stage ended well: compileAll returned, or the child exited with code 0.
EndedWell(o) == o.kind = "return" \/ (o.kind = "exit" /\ o.code = 0)

\* C18: the build runs EJS compile, Vite build, CSS minify in that order, a stage
\* starts only when every stage before it has ended well, and a stage that fails
\* (a throw, a non-zero exit code, a signal) is the last one started and ends the
\* process with exit code 1; exit code 0 means that all three ended well.
C18_StagesInOrder ==
    /\ IsPrefix(bp.started, Stages)
    /\ \A k \in 1..(Len(bp.started) - 1) : EndedWell(bp.ends[k])
    /\ (bp.ends # <<>> /\ ~EndedWell(bp.ends[Len(bp.ends)])) =>
          bp.pc = "exited" /\ bp.code = 1
    /\ bp.pc = "exited" =>
          /\ bp.code \in {0, 1}
          /\ bp.code = 0 <=>
                (bp.started = Stages /\ \A k \in 1..Len(bp.ends) : EndedWell(bp.ends[k]))

\* The Vite build was killed by a signal after a good compile: minify never ran.
C18_Witness ==
    /\ bp.pc = "exited"
    /\ bp.code = 1
    /\ bp.started = <<"compile", "vite">>
    /\ bp.ends[1].kind = "return"
    /\ bp.ends[2].kind = "signal"
    /\ outPath(pageA) \in DOMAIN out


\* ---------------------------------------------------------------- claims: the debounce timer
\* C19: while a burst is open a notification adds its path to pending and leaves
\* the timeout alone: the armed timeout is the one the first notification of the
\* burst armed, it is due DEBOUNCE_MS after that notification, and the flush
\* starts then, however many notifications followed.
C19_FiresAfterFirst ==
    /\ acc.burst # <<>> =>
          /\ timers = {timer}
          /\ clock.left[timer] + clock.since = DEBOUNCE_MS
    /\ \A f \in Flushes : f.waited = DEBOUNCE_MS

\* The second notification came some time after the first; the flush started
\* DEBOUNCE_MS after the first.
C19_Witness ==
    \E f \in Flushes :
        /\ f.took = <<nav, pageB>>
        /\ f.times[1] = 0 /\ f.times[2] > 0
        /\ f.waited = DEBOUNCE_MS

\* C20: outside the synchronous start of flush the pending set is non-empty
\* exactly when the debounce timeout is armed, and at most one timeout is armed.
C20_PendingIffTimer ==
    /\ pending # <<>> <=> timer # 0
    /\ timers = IF timer = 0 THEN {} ELSE {timer}

\* Two paths are pending under the one timeout; after its flush started, none.
C20_Witness ==
    /\ Len(pending) = 2
    /\ timer # 0
    /\ clock.left[timer] = 0

\* ---------------------------------------------------------------- claims: errors in a flush
\* C21: an error raised inside a flush reaches the driver that started the flush,
\* which reports it, and is never dropped unobserved: every rejected flush was
\* caught by code of the program and its error was printed.
C21_ErrorSurfaced ==
    srv.pc # "idle" =>
        \A k \in 1..Len(srv.rejections) :
            srv.rejections[k].caught /\ srv.rejections[k].printed

====
